---- MODULE Spec2Model ----
(***************************************************************************)
(* Model of build_coffee_kg.py: the identifier normaliser (slugify), the   *)
(* structured-field parser (parse_note_intensities), the node and edge     *)
(* primitives (ensure_node, add_edge) and the row-by-row graph assembler   *)
(* (build_graph_from_brews).                                               *)
(*                                                                         *)
(* Python strings are sequences of one-character strings.  Python scalars  *)
(* (cells of the table, attribute values) are records [t, n, s] with a     *)
(* tag t, a number n and a string s, so that any two of them compare.      *)
(***************************************************************************)
EXTENDS Integers, Sequences, FiniteSets, TLC

VARIABLES
    arg,        \* argument of the pure function under call
    ret,        \* its return value
    pc,         \* position of the caller of the pure function / ensure_node
    columns,    \* df.columns: the column names of the table
    phase,      \* position inside build_graph_from_brews
    seen,       \* the rows df.iterrows() has yielded so far
    nodes,      \* G.nodes: node id -> attribute dict
    edges,      \* G's edges: set of [src, dst, key, attrs]
    result,     \* what the caller of build_graph_from_brews receives
    error       \* the exception raised, if any

vars == <<arg, ret, pc, columns, phase, seen, nodes, edges, result, error>>

-----------------------------------------------------------------------------
(* Bounds *)

MaxLen == 4          \* longest exhaustively enumerated slugify input
MaxCellLen == 5      \* longest exhaustively enumerated notes cell
MaxRows == 2         \* rows yielded by df.iterrows()

-----------------------------------------------------------------------------
(* Strings *)

LowerCase == <<"a","b","c","d","e","f","g","h","i","j","k","l","m",
               "n","o","p","q","r","s","t","u","v","w","x","y","z">>
UpperCase == <<"A","B","C","D","E","F","G","H","I","J","K","L","M",
               "N","O","P","Q","R","S","T","U","V","W","X","Y","Z">>
Digits == {"0","1","2","3","4","5","6","7","8","9"}
Whitespace == {" ", "\t", "\n"}

Range(f) == {f[i] : i \in DOMAIN f}

\* [a-z0-9]
SlugChars == Range(LowerCase) \cup Digits
IsSlugChar(c) == c \in SlugChars

\* the lowercase form of the uppercase letters
LowerOf ==
    [c \in Range(UpperCase) \cup {"É"} |->
        IF c = "É" THEN "é"
        ELSE LowerCase[CHOOSE i \in DOMAIN UpperCase : UpperCase[i] = c]]

\* str.lower() on one character
LowerChar(c) == IF c \in DOMAIN LowerOf THEN LowerOf[c] ELSE c

\* str.lower()
Lower(s) == [i \in DOMAIN s |-> LowerChar(s[i])]

RECURSIVE LStrip(_, _)
LStrip(s, cs) ==
    IF s # <<>> /\ Head(s) \in cs THEN LStrip(Tail(s), cs) ELSE s

RECURSIVE RStrip(_, _)
RStrip(s, cs) ==
    IF s # <<>> /\ s[Len(s)] \in cs
    THEN RStrip(SubSeq(s, 1, Len(s) - 1), cs) ELSE s

\* str.strip() / str.strip(chars)
Strip(s, cs) == RStrip(LStrip(s, cs), cs)

\* the None argument
PyNone == <<"<None>">>

\* re.sub(r"[^a-z0-9]+", "-", s): every maximal run of characters outside
\* [a-z0-9] becomes one hyphen
RECURSIVE ReSub(_)
ReSub(s) ==
    IF s = <<>> THEN <<>>
    ELSE IF IsSlugChar(Head(s)) THEN <<Head(s)>> \o ReSub(Tail(s))
    ELSE <<"-">> \o ReSub(LStrip(Tail(s), Range(s) \ SlugChars))

Unknown == <<"u","n","k","n","o","w","n">>

\* slugify with the final strip("-") left out
slugify_keepHyphens(s) ==
    LET s0 == IF s = PyNone \/ s = <<>> THEN <<>> ELSE s
        s2 == ReSub(Lower(Strip(s0, Whitespace)))
    IN  IF s2 = <<>> THEN Unknown ELSE s2

\* slugify with the lowercasing left out
slugify_noLower(s) ==
    LET s0 == IF s = PyNone \/ s = <<>> THEN <<>> ELSE s
        s3 == Strip(ReSub(Strip(s0, Whitespace)), {"-"})
    IN  IF s3 = <<>> THEN Unknown ELSE s3

slugify(s) ==
    LET s0 == IF s = PyNone \/ s = <<>> THEN <<>> ELSE s
        s1 == Lower(Strip(s0, Whitespace))
        s2 == ReSub(s1)
        s3 == Strip(s2, {"-"})
    IN  IF s3 = <<>> THEN Unknown ELSE s3

-----------------------------------------------------------------------------
(* Specification of a caller of slugify *)

RECURSIVE StringsUpTo(_, _)
StringsUpTo(cs, n) ==
    IF n = 0 THEN {<<>>}
    ELSE LET shorter == StringsUpTo(cs, n - 1)
         IN  shorter \cup {<<c>> \o t : c \in cs, t \in {u \in shorter : Len(u) = n - 1}}

SlugAlphabet == {"a", "1", "A", " ", "-", "é"}

SlugSamples ==
    { PyNone,
      <<" "," "," ">>,
      <<"@","@","@">>,
      <<"C","a","f","é"," ","C","r","è","m","e","!">>,
      Unknown,
      <<" ","U","n","k","n","o","w","n","!">>,
      <<"a","-","-"," ","b","_","_","1">> }

SlugInputs == StringsUpTo(SlugAlphabet, MaxLen) \cup SlugSamples

NoRet == <<"<none>">>

IdleBuild ==
    /\ columns = {} /\ phase = "idle" /\ seen = <<>>
    /\ nodes = <<>> /\ edges = {}
    /\ result = [given |-> FALSE, nodes |-> <<>>, edges |-> {}]
    /\ error = [type |-> "none", missing |-> <<>>, field |-> "none"]

BuildUnchanged == UNCHANGED <<columns, phase, seen, nodes, edges, result, error>>

SlugInit ==
    /\ arg \in SlugInputs
    /\ ret = NoRet
    /\ pc = "ready"
    /\ IdleBuild

\* t = slugify(s)
SlugifyCall ==
    /\ pc = "ready"
    /\ ret' = slugify(arg)
    /\ pc' = "returned"
    /\ UNCHANGED arg
    /\ BuildUnchanged

\* slugify(t): the token is normalised again
SlugifyAgain ==
    /\ pc = "returned"
    /\ arg' = ret
    /\ ret' = slugify(ret)
    /\ pc' = "renormalized"
    /\ BuildUnchanged

SlugNext == SlugifyCall \/ SlugifyAgain

SlugSpec == SlugInit /\ [][SlugNext]_vars

-----------------------------------------------------------------------------
(* Properties of slugify *)

\* the characters of an argument (None has none)
Chars(s) == IF s = PyNone THEN <<>> ELSE s

\* the longest prefix of s made of [a-z0-9]
RECURSIVE FirstRun(_)
FirstRun(s) ==
    IF s = <<>> \/ ~IsSlugChar(Head(s)) THEN <<>>
    ELSE <<Head(s)>> \o FirstRun(Tail(s))

\* the maximal runs of [a-z0-9] of a string, in order
RECURSIVE Words(_)
Words(s) ==
    IF s = <<>> THEN <<>>
    ELSE IF ~IsSlugChar(Head(s)) THEN Words(Tail(s))
    ELSE <<FirstRun(s)>> \o Words(SubSeq(s, Len(FirstRun(s)) + 1, Len(s)))

HasSlugChar(s) == \E i \in DOMAIN s : IsSlugChar(s[i])

\* non-empty, only [a-z0-9] and single hyphens, no hyphen at either end
ValidToken(t) ==
    /\ t # <<>>
    /\ \A i \in DOMAIN t : IsSlugChar(t[i]) \/ t[i] = "-"
    /\ t[1] # "-" /\ t[Len(t)] # "-"
    /\ \A i \in 1..(Len(t) - 1) : ~(t[i] = "-" /\ t[i + 1] = "-")

Idempotent == pc = "renormalized" => ret = arg

\* C7 as stated: slugify is total, returns a valid token, returns "unknown"
\* exactly when the lowercased input has no [a-z0-9] character, and is
\* idempotent.
C7_AsStated ==
    /\ pc = "returned" =>
          /\ ValidToken(ret)
          /\ (ret = Unknown) <=> ~HasSlugChar(Lower(Chars(arg)))
    /\ Idempotent

\* C7 amended: slugify is total, returns a valid token, returns "unknown"
\* when the lowercased input has no [a-z0-9] character and otherwise only
\* when its single alphanumeric run is the word "unknown" itself, and is
\* idempotent.
C7_SlugTotalIdempotent ==
    /\ pc = "returned" =>
          /\ ValidToken(ret)
          /\ (ret = Unknown) <=>
                \/ ~HasSlugChar(Lower(Chars(arg)))
                \/ Words(Lower(Chars(arg))) = <<Unknown>>
    /\ Idempotent

\* a token of several words has been normalised a second time
C7_Witness ==
    /\ pc = "renormalized"
    /\ "-" \in Range(ret)
    /\ ret = arg

-----------------------------------------------------------------------------
(* parse_note_intensities *)

\* s.split(sep)
RECURSIVE Split(_, _)
Split(s, sep) ==
    IF sep \notin Range(s) THEN <<s>>
    ELSE LET i == CHOOSE i \in DOMAIN s : s[i] = sep /\ \A j \in 1..(i - 1) : s[j] # sep
         IN  <<SubSeq(s, 1, i - 1)>> \o Split(SubSeq(s, i + 1, Len(s)), sep)

\* p.split(sep, 1) of a p that contains sep
SplitFirst(p, sep) ==
    LET i == CHOOSE i \in DOMAIN p : p[i] = sep /\ \A j \in 1..(i - 1) : p[j] # sep
    IN  <<SubSeq(p, 1, i - 1), SubSeq(p, i + 1, Len(p))>>

DigitSeq == <<"0","1","2","3","4","5","6","7","8","9">>
DigitVal(c) == (CHOOSE i \in DOMAIN DigitSeq : DigitSeq[i] = c) - 1

\* the integer literals int() accepts: [sign] digit (["_"] digit)*
IsIntLiteral(s) ==
    LET b == IF s # <<>> /\ s[1] \in {"+", "-"} THEN Tail(s) ELSE s
    IN  /\ b # <<>>
        /\ \A i \in DOMAIN b : b[i] \in Digits \cup {"_"}
        /\ b[1] # "_" /\ b[Len(b)] # "_"
        /\ \A i \in 1..(Len(b) - 1) : ~(b[i] = "_" /\ b[i + 1] = "_")

RECURSIVE Magnitude(_)
Magnitude(b) ==
    IF b = <<>> THEN 0
    ELSE LET front == SubSeq(b, 1, Len(b) - 1)
         IN  IF b[Len(b)] \in Digits
             THEN Magnitude(front) * 10 + DigitVal(b[Len(b)])
             ELSE Magnitude(front)

\* int(s): ok = FALSE stands for ValueError
PyInt(s) ==
    LET t == Strip(s, Whitespace)
    IN  IF IsIntLiteral(t)
        THEN [ok |-> TRUE, v |-> IF t[1] = "-" THEN 0 - Magnitude(t) ELSE Magnitude(t)]
        ELSE [ok |-> FALSE, v |-> 0]

\* a dict is the sequence of its [k, v] items in insertion order
DictKeys(d) == {d[i].k : i \in DOMAIN d}
DictGet(d, k) == d[CHOOSE i \in DOMAIN d : d[i].k = k].v

\* d[k] = v
DictSet(d, k, v) ==
    IF k \in DictKeys(d)
    THEN [i \in DOMAIN d |-> IF d[i].k = k THEN [k |-> k, v |-> v] ELSE d[i]]
    ELSE Append(d, [k |-> k, v |-> v])

\* the loop over parts that keeps the first value of a repeated key
RECURSIVE ParseParts_firstWins(_, _)
ParseParts_firstWins(parts, out) ==
    IF parts = <<>> THEN out
    ELSE LET p == Head(parts)
         IN  IF ":" \notin Range(p) THEN ParseParts_firstWins(Tail(parts), out)
             ELSE LET kv == SplitFirst(p, ":")
                      note == Strip(kv[1], Whitespace)
                      intensity_i == PyInt(Strip(kv[2], Whitespace))
                  IN  IF ~intensity_i.ok THEN ParseParts_firstWins(Tail(parts), out)
                      ELSE IF note # <<>> /\ note \notin DictKeys(out)
                      THEN ParseParts_firstWins(Tail(parts), DictSet(out, note, intensity_i.v))
                      ELSE ParseParts_firstWins(Tail(parts), out)

\* for p in parts: ...
RECURSIVE ParseParts(_, _)
ParseParts(parts, out) ==
    IF parts = <<>> THEN out
    ELSE LET p == Head(parts)
         IN  IF ":" \notin Range(p) THEN ParseParts(Tail(parts), out)
             ELSE LET kv == SplitFirst(p, ":")
                      note == Strip(kv[1], Whitespace)
                      intensity_i == PyInt(Strip(kv[2], Whitespace))
                  IN  IF ~intensity_i.ok THEN ParseParts(Tail(parts), out)
                      ELSE IF note # <<>>
                      THEN ParseParts(Tail(parts), DictSet(out, note, intensity_i.v))
                      ELSE ParseParts(Tail(parts), out)

NonBlank(p) == Strip(p, Whitespace) # <<>>

parse_note_intensities(s) ==
    IF s = PyNone \/ Strip(s, Whitespace) = <<>> THEN <<>>
    ELSE LET raw == SelectSeq(Split(s, ";"), NonBlank)
             parts == [i \in DOMAIN raw |-> Strip(raw[i], Whitespace)]
         IN  ParseParts(parts, <<>>)

-----------------------------------------------------------------------------
(* Specification of a caller of parse_note_intensities *)

CellAlphabet == {"a", "1", ":", ";", " ", "-"}

NotesExample ==
    <<"c","h","o","c","o","l","a","t","e",":","4",";","f","r","u","i","t",":","x",";",
      ":","5",";","f","l","o","r","a","l",":","2">>

CellSamples ==
    { PyNone,
      NotesExample,
      <<"a",":","1",";","a",":","2">>,
      <<"a",":","1",";","b",":","2",";"," ","a"," ",":","3">>,
      <<"a",":","1",":","2">>,
      <<"a",":","+","1","_","0">>,
      <<"a",":","1","_">>,
      <<"a",":"," ","1"," ",";",";","b">>,
      <<"a",":","1",";","a",":","x">> }

CellInputs == StringsUpTo(CellAlphabet, MaxCellLen) \cup CellSamples

ParseInit ==
    /\ arg \in CellInputs
    /\ ret = NoRet
    /\ pc = "ready"
    /\ IdleBuild

\* m = parse_note_intensities(s)
ParseCall ==
    /\ pc = "ready"
    /\ ret' = parse_note_intensities(arg)
    /\ pc' = "parsed"
    /\ UNCHANGED arg
    /\ BuildUnchanged

ParseNext == ParseCall

ParseSpec == ParseInit /\ [][ParseNext]_vars

-----------------------------------------------------------------------------
(* Properties of parse_note_intensities *)

\* the semicolon positions of s, with both ends of s
Seps(s) == {0, Len(s) + 1} \cup {i \in DOMAIN s : s[i] = ";"}

\* the segments of s as pairs of neighbouring separators
Segments(s) ==
    {g \in Seps(s) \X Seps(s) :
        g[1] < g[2] /\ ~\E c \in Seps(s) : g[1] < c /\ c < g[2]}

SegText(s, g) == SubSeq(s, g[1] + 1, g[2] - 1)

FirstColon(x) == CHOOSE i \in DOMAIN x : x[i] = ":" /\ \A j \in 1..(i - 1) : x[j] # ":"

SegKey(x) == Strip(SubSeq(x, 1, FirstColon(x) - 1), Whitespace)
SegValue(x) == Strip(SubSeq(x, FirstColon(x) + 1, Len(x)), Whitespace)

\* the segments that are kept
Kept(s) ==
    {g \in Segments(s) :
        LET x == SegText(s, g)
        IN  /\ ":" \in Range(x)
            /\ SegKey(x) # <<>>
            /\ IsIntLiteral(SegValue(x))}

\* the mapping the cell denotes: each kept key with the value of its last
\* kept segment
Denoted(s) ==
    IF s = PyNone THEN <<>>
    ELSE [k \in {SegKey(SegText(s, g)) : g \in Kept(s)} |->
            LET last == CHOOSE g \in Kept(s) :
                            /\ SegKey(SegText(s, g)) = k
                            /\ \A h \in Kept(s) :
                                  SegKey(SegText(s, h)) = k => h[1] <= g[1]
            IN  PyInt(SegValue(SegText(s, last))).v]

\* a returned dict as a mapping
AsMap(d) == [k \in DictKeys(d) |-> DictGet(d, k)]

NoDuplicateKeys(d) == \A i, j \in DOMAIN d : d[i].k = d[j].k => i = j

\* C6: parse_note_intensities returns, for every input, exactly the mapping
\* of the kept segments (those with a ':', a non-empty trimmed key and an
\* integer value), a later occurrence of a key overwriting an earlier one;
\* non-string and blank input give the empty mapping; the example cell gives
\* {chocolate: 4, floral: 2}.
C6_ParserContract ==
    pc = "parsed" =>
        /\ NoDuplicateKeys(ret)
        /\ AsMap(ret) = Denoted(arg)
        /\ (arg = PyNone \/ Strip(arg, Whitespace) = <<>>) => ret = <<>>
        /\ arg = NotesExample =>
              ret = << [k |-> <<"c","h","o","c","o","l","a","t","e">>, v |-> 4],
                       [k |-> <<"f","l","o","r","a","l">>, v |-> 2] >>

\* a cell with a repeated key and a dropped segment has been parsed
C6_Witness ==
    /\ pc = "parsed"
    /\ arg = <<"a",":","1",";","b",":","2",";"," ","a"," ",":","3">>
    /\ AsMap(ret) = (<<"a">> :> 3) @@ (<<"b">> :> 2)

-----------------------------------------------------------------------------
(* Scalars *)

None == [t |-> "none", n |-> 0, s |-> <<>>]
NaN == [t |-> "nan", n |-> 0, s |-> <<>>]
Str(s) == [t |-> "str", n |-> 0, s |-> s]
Num(n) == [t |-> "num", n |-> n, s |-> <<>>]

\* a string literal of the program that is never taken apart
Lit(name) == Str(<<name>>)

EmptyStr == Str(<<>>)

\* v is None or v == ""
IsEmpty(v) == v = None \/ v = EmptyStr

RECURSIVE IntToStr(_)
IntToStr(n) ==
    IF n < 10 THEN <<DigitSeq[n + 1]>>
    ELSE IntToStr(n \div 10) \o <<DigitSeq[(n % 10) + 1]>>

\* str(v) of a cell
PyStr(v) ==
    IF v.t = "str" THEN v.s
    ELSE IF v.t = "nan" THEN <<"n","a","n">>
    ELSE IF v.t = "none" THEN <<"N","o","n","e">>
    ELSE IF v.n < 0 THEN <<"-">> \o IntToStr(0 - v.n) ELSE IntToStr(v.n)

\* float(v) of a cell: ok = FALSE stands for ValueError / TypeError.  Of the
\* literals float() accepts, the integer literals and nan are modelled.
PyFloat(v) ==
    IF v.t \in {"num", "nan"} THEN [ok |-> TRUE, v |-> v]
    ELSE IF v.t = "none" THEN [ok |-> FALSE, v |-> None]
    ELSE LET x == Strip(v.s, Whitespace)
             unsigned == IF x # <<>> /\ x[1] \in {"+", "-"} THEN Tail(x) ELSE x
         IN  IF IsIntLiteral(x) THEN [ok |-> TRUE, v |-> Num(PyInt(x).v)]
             ELSE IF Lower(unsigned) = <<"n","a","n">> THEN [ok |-> TRUE, v |-> NaN]
             ELSE [ok |-> FALSE, v |-> None]

\* pd.notna(v)
NotNa(v) == v.t \notin {"nan", "none"}

-----------------------------------------------------------------------------
(* ensure_node and add_edge on G = [nodes, edges] *)

\* G.add_node on an existing node updates its attribute dict
DictUpdateNode(old, new) ==
    [k \in DOMAIN old \cup DOMAIN new |-> IF k \in DOMAIN new THEN new[k] ELSE old[k]]

\* the attribute dict of a new node
NewNodeAttrs(label, node_type, props) ==
    [k \in {"label", "type"} \cup DOMAIN props |->
        IF k = "label" THEN Str(label)
        ELSE IF k = "type" THEN Lit(node_type)
        ELSE props[k]]

\* the merge loop with truthiness tests ("if v and not cur.get(k)")
Falsy(v) == IsEmpty(v) \/ v = Num(0)
MergeProps_falsy(cur, props) ==
    [k \in DOMAIN cur \cup {j \in DOMAIN props : ~Falsy(props[j])} |->
        IF /\ k \in DOMAIN props
           /\ ~Falsy(props[k])
           /\ (k \notin DOMAIN cur \/ Falsy(cur[k]))
        THEN props[k]
        ELSE cur[k]]

\* the merge loop of ensure_node on the attribute dict cur of an existing node
MergeProps(cur, props) ==
    [k \in DOMAIN cur \cup {j \in DOMAIN props : ~IsEmpty(props[j])} |->
        IF /\ k \in DOMAIN props
           /\ ~IsEmpty(props[k])
           /\ (k \notin DOMAIN cur \/ IsEmpty(cur[k]))
        THEN props[k]
        ELSE cur[k]]

\* ensure_node without the "node_id not in G" test: add_node on every call
ensure_node_addAlways(G, node_id, label, node_type, props) ==
    IF node_id \notin DOMAIN G.nodes
    THEN [G EXCEPT !.nodes = (node_id :> NewNodeAttrs(label, node_type, props)) @@ @]
    ELSE [G EXCEPT !.nodes[node_id] = DictUpdateNode(@, NewNodeAttrs(label, node_type, props))]

ensure_node(G, node_id, label, node_type, props) ==
    IF node_id \notin DOMAIN G.nodes
    THEN [G EXCEPT !.nodes = (node_id :> NewNodeAttrs(label, node_type, props)) @@ @]
    ELSE [G EXCEPT !.nodes[node_id] = MergeProps(@, props)]

\* dict.update
DictUpdate(old, new) ==
    [k \in DOMAIN old \cup DOMAIN new |-> IF k \in DOMAIN new THEN new[k] ELSE old[k]]

\* the edges of G with the triple (src, dst, key)
EdgesAt(es, src, dst, key) ==
    {e \in es : e.src = src /\ e.dst = dst /\ e.key = key}

\* MultiDiGraph.add_edge(u, v, key, **attr): missing end nodes are created
\* bare, and the attribute dict of an existing (u, v, key) is updated
GAddEdge(G, u, v, key, attr) ==
    LET bare == [n \in {u, v} \ DOMAIN G.nodes |-> <<>>]
        old == EdgesAt(G.edges, u, v, key)
        datadict == IF old = {} THEN attr
                    ELSE DictUpdate((CHOOSE e \in old : TRUE).attrs, attr)
    IN  [nodes |-> G.nodes @@ bare,
         edges |-> (G.edges \ old) \cup
                   {[src |-> u, dst |-> v, key |-> key, attrs |-> datadict]}]

add_edge(G, src, rel, dst, props) ==
    GAddEdge(G, src, dst, rel, ("type" :> Lit(rel)) @@ props)

NoProps == <<>>

-----------------------------------------------------------------------------
(* build_graph_from_brews *)

core_columns ==
    {"brew_id", "barista", "brew_date", "roaster", "coffee_name", "roast_level",
     "roast_date", "brew_method", "brewer_brand", "brewer_model", "dose_g",
     "total_brew_time_sec", "notes_intensities", "sweetness_0_10", "acidity_0_10",
     "bitterness_0_10", "body_0_10", "overall_0_10", "grinder", "grind_setting",
     "filter_material", "notes_overall"}

required ==
    <<"brew_id", "barista", "brew_date", "roaster", "coffee_name", "roast_level",
      "brew_method", "brewer_brand", "brewer_model", "dose_g", "total_brew_time_sec",
      "notes_intensities", "sweetness_0_10", "acidity_0_10", "bitterness_0_10",
      "body_0_10", "overall_0_10">>

\* the check of the required columns stopping at the first missing one
MissingFrom_first(req, cols) ==
    IF \E i \in DOMAIN req : req[i] \notin cols
    THEN <<req[CHOOSE i \in DOMAIN req :
                  req[i] \notin cols /\ \A j \in 1..(i - 1) : req[j] \in cols]>>
    ELSE <<>>

\* [c for c in required if c not in df.columns]
RECURSIVE MissingFrom(_, _)
MissingFrom(req, cols) ==
    IF req = <<>> THEN <<>>
    ELSE (IF Head(req) \in cols THEN <<>> ELSE <<Head(req)>>) \o MissingFrom(Tail(req), cols)

\* the float(...) conversions of a row, in the order the code makes them
NumericFields ==
    <<"dose_g", "total_brew_time_sec", "sweetness_0_10", "acidity_0_10",
      "bitterness_0_10", "body_0_10", "overall_0_10">>

\* r.get(col, default)
Get(r, col, default) == IF col \in DOMAIN r THEN r[col] ELSE default

\* str(r.get(col, "unknown"))
StrField(r, col) == PyStr(Get(r, col, Str(Unknown)))

\* str(r.get(col, "")) if pd.notna(r.get(col, None)) else ""
OptStrField(r, col) ==
    IF NotNa(Get(r, col, None)) THEN PyStr(Get(r, col, EmptyStr)) ELSE <<>>

\* a conversion that falls back to 0.0 instead of raising
FloatField_defaulting(r, col) ==
    IF PyFloat(Get(r, col, Num(0))).ok THEN PyFloat(Get(r, col, Num(0)))
    ELSE [ok |-> TRUE, v |-> Num(0)]

\* float(r.get(col, 0.0))
FloatField(r, col) == PyFloat(Get(r, col, Num(0)))

\* every float(...) of the row succeeds
Coerces(r) == \A i \in DOMAIN NumericFields : FloatField(r, NumericFields[i]).ok

roaster_id(r) == <<"r","o","a","s","t","e","r",":">> \o slugify(StrField(r, "roaster"))

beanlot_id(r) ==
    <<"b","e","a","n",":">> \o slugify(StrField(r, "roaster"))
        \o <<":">> \o slugify(StrField(r, "coffee_name"))

roastbatch_id(r) ==
    <<"r","o","a","s","t",":">> \o slugify(StrField(r, "roaster"))
        \o <<":">> \o slugify(StrField(r, "coffee_name"))
        \o <<":">> \o slugify(StrField(r, "roast_level"))

grinder_id(r) == <<"g","r","i","n","d","e","r",":">> \o slugify(StrField(r, "grinder"))

brewer_id(r) ==
    <<"b","r","e","w","e","r",":">> \o slugify(StrField(r, "brewer_brand"))
        \o <<"-">> \o slugify(StrField(r, "brewer_model"))

brew_session_id(r) == <<"b","r","e","w",":">> \o slugify(StrField(r, "brew_id"))

eval_id(r) == <<"e","v","a","l",":">> \o slugify(StrField(r, "brew_id"))

note_id(note) == <<"n","o","t","e",":">> \o slugify(note)

note_map(r) == parse_note_intensities(PyStr(Get(r, "notes_intensities", EmptyStr)))

\* for note, intensity in note_map.items(): ensure_node(...)
RECURSIVE NoteNodes(_, _)
NoteNodes(G, items) ==
    IF items = <<>> THEN G
    ELSE NoteNodes(ensure_node(G, note_id(Head(items).k), Head(items).k,
                               "FlavorNote", NoProps),
                   Tail(items))

\* for note, intensity in note_map.items(): add_edge(...)
RECURSIVE NoteEdges(_, _, _)
NoteEdges(G, ev, items) ==
    IF items = <<>> THEN G
    ELSE NoteEdges(add_edge(G, ev, "HAS_NOTE", note_id(Head(items).k),
                            "intensity" :> Num(Head(items).v)),
                   ev, Tail(items))

\* the dynamic columns of the row that hold a value, converted
method_params(r) ==
    LET dyn == {c \in DOMAIN r \ core_columns : NotNa(r[c]) /\ r[c] # EmptyStr}
    IN  [k \in {"brew_method"} \cup dyn |->
            IF k \in dyn
            THEN (IF PyFloat(r[k]).ok THEN PyFloat(r[k]).v ELSE Str(PyStr(r[k])))
            ELSE Str(StrField(r, "brew_method"))]

\* the ensure_node calls of one row
RowNodes(G, r) ==
    LET roaster == StrField(r, "roaster")
        coffee_name == StrField(r, "coffee_name")
        roast_level == StrField(r, "roast_level")
        brewer_brand == StrField(r, "brewer_brand")
        brewer_model == StrField(r, "brewer_model")
        brew_id == StrField(r, "brew_id")
        G1 == ensure_node(G, roaster_id(r), roaster, "Roaster", NoProps)
        G2 == ensure_node(G1, beanlot_id(r), coffee_name, "BeanLot", NoProps)
        G3 == ensure_node(G2, roastbatch_id(r),
                          coffee_name \o <<" ", "(">> \o roast_level \o <<")">>,
                          "RoastBatch", "roast_level" :> Str(roast_level))
        G4 == ensure_node(G3, grinder_id(r), StrField(r, "grinder"), "Grinder", NoProps)
        G5 == ensure_node(G4, brewer_id(r),
                          Strip(brewer_brand \o <<" ">> \o brewer_model, Whitespace),
                          "Brewer",
                          [k \in {"brand", "model", "filter_material"} |->
                              IF k = "brand" THEN Str(brewer_brand)
                              ELSE IF k = "model" THEN Str(brewer_model)
                              ELSE Str(OptStrField(r, "filter_material"))])
        G6 == ensure_node(G5, brew_session_id(r), brew_id, "BrewSession",
                          [k \in {"dose_g", "total_brew_time_sec", "notes_overall",
                                  "barista", "brew_date"} |->
                              IF k \in {"dose_g", "total_brew_time_sec"}
                              THEN FloatField(r, k).v
                              ELSE IF k = "notes_overall"
                              THEN Str(OptStrField(r, k))
                              ELSE Str(StrField(r, k))])
        G7 == ensure_node(G6, eval_id(r), <<"E","v","a","l"," ">> \o brew_id,
                          "SensoryEvaluation",
                          [k \in {"sweetness_0_10", "acidity_0_10", "bitterness_0_10",
                                  "body_0_10", "overall_0_10"} |-> FloatField(r, k).v])
    IN  NoteNodes(G7, note_map(r))

\* the add_edge calls of one row
RowEdges(G, r) ==
    LET G1 == add_edge(G, roaster_id(r), "PRODUCES", beanlot_id(r), NoProps)
        G2 == add_edge(G1, beanlot_id(r), "ROASTED_AS", roastbatch_id(r),
                       "roast_date" :> Str(OptStrField(r, "roast_date")))
        G3 == add_edge(G2, brew_session_id(r), "USES_GRINDER", grinder_id(r),
                       "grind_setting" :> Str(StrField(r, "grind_setting")))
        G4 == add_edge(G3, brew_session_id(r), "BREWED_WITH", brewer_id(r),
                       method_params(r))
        G5 == add_edge(G4, brew_session_id(r), "USES_ROAST", roastbatch_id(r), NoProps)
        G6 == add_edge(G5, brew_session_id(r), "EVALUATED_AS", eval_id(r), NoProps)
    IN  NoteEdges(G6, eval_id(r), note_map(r))

\* the body of the loop for a row whose numeric fields coerce
ProcessRow(G, r) == RowEdges(RowNodes(G, r), r)

-----------------------------------------------------------------------------
(* The tables build_graph_from_brews is run on *)

DynColumns == {"water_temp_c"}
OptionalColumns == {"roast_date", "grinder", "grind_setting", "filter_material", "notes_overall"}

\* required columns a table may lack
DroppedColumns == {"brew_id", "dose_g", "overall_0_10"}

TableColumns ==
    {(Range(required) \ m) \cup OptionalColumns \cup DynColumns : m \in SUBSET DroppedColumns}
        \cup {Range(required) \cup OptionalColumns, Range(required)}

BaseRow ==
    [c \in core_columns \cup DynColumns |->
        CASE c = "brew_id" -> Num(1)
          [] c = "barista" -> Str(<<"k">>)
          [] c = "brew_date" -> Str(<<"d","1">>)
          [] c = "roaster" -> Str(<<"O","n">>)
          [] c = "coffee_name" -> Str(<<"x">>)
          [] c = "roast_level" -> Str(<<"l">>)
          [] c = "brew_method" -> Str(<<"v">>)
          [] c = "brewer_brand" -> Str(<<"a">>)
          [] c = "brewer_model" -> Str(<<"c">>)
          [] c = "dose_g" -> Str(<<"1","8">>)
          [] c = "grinder" -> Str(<<"g">>)
          [] c = "grind_setting" -> Num(7)
          [] c \in {"total_brew_time_sec", "sweetness_0_10", "acidity_0_10",
                    "bitterness_0_10", "body_0_10", "overall_0_10"} -> Num(5)
          [] OTHER -> NaN]

BrewIds == {Num(1), Num(2)}
Roasters == {Str(<<"O","n">>), Str(<<" ","o","n","!">>), Str(<<"o",".","n">>)}
BrewerPairs ==
    { <<Str(<<"a">>), Str(<<"c">>)>>,
      <<Str(<<"a","-","b">>), Str(<<"c">>)>>,
      <<Str(<<"a">>), Str(<<"b","-","c">>)>> }
FilterCells == {NaN, Str(<<"p">>), Str(<<"m">>)}
DoseCells == {Str(<<"0">>), Str(<<"1","8">>)}
WaterCells == {NaN, Str(<<"9","3">>), Str(<<"h","o","t">>)}
MethodCells == {Str(<<"v">>), Str(<<"e">>)}
NotesCells ==
    { Str(<<"f",":","2">>),
      Str(<<"F",":","3",";","c",":","x",";","f",":","4">>),
      Str(<<"f",":","5",";","c",":","1">>) }
BadCell == Str(<<"x">>)

\* the rows of a table with every column
FullRows ==
    {[BaseRow EXCEPT !["roaster"] = ro, !["brewer_brand"] = bp[1], !["brewer_model"] = bp[2]] :
        ro \in Roasters, bp \in BrewerPairs}
    \cup {[BaseRow EXCEPT !["filter_material"] = f] : f \in FilterCells}
    \cup {[BaseRow EXCEPT !["brew_id"] = b, !["dose_g"] = d] : b \in BrewIds, d \in DoseCells}
    \cup {[BaseRow EXCEPT !["water_temp_c"] = w, !["brew_method"] = m] :
        w \in WaterCells, m \in MethodCells}
    \cup {[BaseRow EXCEPT !["brew_id"] = Num(2), !["water_temp_c"] = w] : w \in WaterCells}
    \cup {[BaseRow EXCEPT !["notes_intensities"] = n] : n \in NotesCells}
    \cup {[BaseRow EXCEPT ![NumericFields[i]] = BadCell] : i \in DOMAIN NumericFields}

\* the rows of a table with the columns cols
RowSpace(cols) == {[c \in cols |-> r[c]] : r \in FullRows}

NoError == [type |-> "none", missing |-> <<>>, field |-> "none"]
NoResult == [given |-> FALSE, nodes |-> <<>>, edges |-> {}]

BuildInit ==
    /\ columns \in TableColumns
    /\ phase = "start"
    /\ seen = <<>>
    /\ nodes = <<>>
    /\ edges = {}
    /\ result = NoResult
    /\ error = NoError
    /\ arg = <<>> /\ ret = NoRet /\ pc = "build"

\* the check of the required columns; G = nx.MultiDiGraph()
Validate ==
    /\ phase = "start"
    /\ LET missing == MissingFrom(required, columns)
       IN  IF missing # <<>>
           THEN /\ phase' = "raised"
                /\ error' = [type |-> "ValueError", missing |-> missing, field |-> "none"]
           ELSE /\ phase' = "rows"
                /\ UNCHANGED error
    /\ UNCHANGED <<arg, ret, pc, columns, seen, nodes, edges, result>>

\* one iteration of "for _, r in df.iterrows()"
NextRow ==
    /\ phase = "rows"
    /\ Len(seen) < MaxRows
    /\ \E r \in RowSpace(columns) :
          /\ seen' = Append(seen, r)
          /\ IF Coerces(r)
             THEN LET G == ProcessRow([nodes |-> nodes, edges |-> edges], r)
                  IN  /\ nodes' = G.nodes
                      /\ edges' = G.edges
                      /\ UNCHANGED <<phase, error>>
             ELSE /\ phase' = "raised"
                  /\ error' = [type |-> "ValueError", missing |-> <<>>,
                               field |-> NumericFields[
                                   CHOOSE i \in DOMAIN NumericFields :
                                       /\ ~FloatField(r, NumericFields[i]).ok
                                       /\ \A j \in 1..(i - 1) :
                                             FloatField(r, NumericFields[j]).ok]]
                      /\ UNCHANGED <<nodes, edges>>
    /\ UNCHANGED <<arg, ret, pc, columns, result>>

\* the rows are exhausted: return G
Return ==
    /\ phase = "rows"
    /\ phase' = "returned"
    /\ result' = [given |-> TRUE, nodes |-> nodes, edges |-> edges]
    /\ UNCHANGED <<arg, ret, pc, columns, seen, nodes, edges, error>>

Next == Validate \/ NextRow \/ Return

Spec == BuildInit /\ [][Next]_vars

-----------------------------------------------------------------------------
(* Specification of a caller of ensure_node *)

CallIds == {<<"n","1">>, <<"n","2">>}
CallLabels == {<<"L">>, <<"M">>}
CallValues == {None, EmptyStr, Num(0), Str(<<"X">>), Str(<<"Y">>)}
CallProps == {NoProps} \cup {"a" :> v : v \in CallValues}

NoCall == [node_id |-> <<>>, label |-> <<>>, node_type |-> "none", props |-> NoProps]

NodeInit ==
    /\ arg = NoCall
    /\ ret = NoRet
    /\ pc = "ready"
    /\ nodes = <<>>
    /\ edges = {}
    /\ columns = {} /\ phase = "idle" /\ seen = <<>>
    /\ result = NoResult /\ error = NoError

\* ensure_node(G, node_id, label, node_type, **props)
EnsureNodeCall ==
    /\ \E id \in CallIds, l \in CallLabels, ty \in {"Thing", "Other"}, ps \in CallProps :
          /\ arg' = [node_id |-> id, label |-> l, node_type |-> ty, props |-> ps]
          /\ nodes' = ensure_node([nodes |-> nodes, edges |-> edges], id, l, ty, ps).nodes
    /\ pc' = "called"
    /\ UNCHANGED <<ret, edges, columns, phase, seen, result, error>>

NodeNext == EnsureNodeCall

NodeSpec == NodeInit /\ [][NodeNext]_vars

-----------------------------------------------------------------------------
(* Properties of ensure_node *)

\* a value that is neither None nor ""
IsSet(v) == v # None /\ v # Str(<<>>)

-----------------------------------------------------------------------------
(* Properties of build_graph_from_brews *)

Last == seen[Len(seen)]

\* the last row went through the whole loop body
Processed == phase \in {"rows", "returned"} /\ seen # <<>>

RequiredMissing == {c \in Range(required) : c \notin columns}

\* C3: when a required column is absent the build raises an error listing
\* every missing required column, before any row is read and before any
\* node or edge is made, and returns no graph; when none is absent the
\* validation does not fail.
C3_SchemaValidation ==
    /\ (phase # "start" /\ RequiredMissing # {}) =>
          /\ phase = "raised"
          /\ error.type = "ValueError"
          /\ Range(error.missing) = RequiredMissing
          /\ seen = <<>> /\ nodes = <<>> /\ edges = {}
          /\ ~result.given
    /\ (phase # "start" /\ RequiredMissing = {}) =>
          /\ error.missing = <<>>
          /\ (seen = <<>> => phase # "raised")

\* the build failed on a table lacking two or more required columns
C3_Witness ==
    /\ phase = "raised"
    /\ Len(error.missing) >= 2
    /\ "dose_g" \in Range(error.missing)

\* a cell that float() rejects
NotANumber(v) == ~PyFloat(v).ok

HasBadNumber(r) ==
    \E c \in {"dose_g", "total_brew_time_sec", "sweetness_0_10", "acidity_0_10",
              "bitterness_0_10", "body_0_10", "overall_0_10"} \cap DOMAIN r :
        NotANumber(r[c])

\* C4: a row with a core numeric field that does not coerce makes the build
\* raise at that row: it is the last row read, the error is kept (nothing is
\* defaulted), and the caller receives no graph.
C4_AtomicAbort ==
    /\ \A i \in DOMAIN seen :
          HasBadNumber(seen[i]) =>
              /\ i = Len(seen)
              /\ phase = "raised"
              /\ error.type = "ValueError"
              /\ error.field # "none"
              /\ NotANumber(seen[i][error.field])
              /\ ~result.given
    /\ phase = "raised" => result = NoResult

\* the build raised on its second row, with the first row's nodes and edges
\* already in the graph under construction
C4_Witness ==
    /\ phase = "raised"
    /\ Len(seen) = 2
    /\ HasBadNumber(seen[2])
    /\ nodes # <<>> /\ edges # {}
    /\ ~result.given

\* what each kind of entity is keyed by, and its node id
Kinds == {"Roaster", "BeanLot", "RoastBatch", "Grinder", "Brewer", "BrewSession",
          "SensoryEvaluation"}

KeyFields(kind) ==
    CASE kind = "Roaster" -> <<"roaster">>
      [] kind = "BeanLot" -> <<"roaster", "coffee_name">>
      [] kind = "RoastBatch" -> <<"roaster", "coffee_name", "roast_level">>
      [] kind = "Grinder" -> <<"grinder">>
      [] kind = "Brewer" -> <<"brewer_brand", "brewer_model">>
      [] kind = "BrewSession" -> <<"brew_id">>
      [] kind = "SensoryEvaluation" -> <<"brew_id">>

IdOf(kind, r) ==
    CASE kind = "Roaster" -> roaster_id(r)
      [] kind = "BeanLot" -> beanlot_id(r)
      [] kind = "RoastBatch" -> roastbatch_id(r)
      [] kind = "Grinder" -> grinder_id(r)
      [] kind = "Brewer" -> brewer_id(r)
      [] kind = "BrewSession" -> brew_session_id(r)
      [] kind = "SensoryEvaluation" -> eval_id(r)

\* a name reduced to its lowercase alphanumeric words
Canonical(s) == Words(Lower(s))

\* the rows name the same entity of the kind: every key field has the same
\* words, whatever the case, the spacing and the punctuation around them
SameEntity(kind, r1, r2) ==
    \A i \in DOMAIN KeyFields(kind) :
        Canonical(StrField(r1, KeyFields(kind)[i])) = Canonical(StrField(r2, KeyFields(kind)[i]))

NodesOfType(ns, kind) ==
    {n \in DOMAIN ns : "type" \in DOMAIN ns[n] /\ ns[n]["type"] = Lit(kind)}

\* C5: two rows that name the same entity (key fields equal up to case,
\* surrounding whitespace and punctuation) get the same node id, whatever
\* the order of the rows, and the graph holds one Roaster node for all the
\* rows naming that roaster.
C5_IdentityStability ==
    Processed =>
        /\ \A i, j \in DOMAIN seen :
              i < j =>
                  \A kind \in Kinds :
                      SameEntity(kind, seen[i], seen[j]) =>
                          IdOf(kind, seen[i]) = IdOf(kind, seen[j])
        /\ \A i \in DOMAIN seen :
              \A kind \in Kinds :
                  /\ IdOf(kind, seen[i]) \in DOMAIN nodes
                  /\ nodes[IdOf(kind, seen[i])]["type"] = Lit(kind)
        /\ \A i \in DOMAIN seen :
              Cardinality({n \in NodesOfType(nodes, "Roaster") :
                  Canonical(nodes[n]["label"].s)
                      = Canonical(StrField(seen[i], "roaster"))}) = 1

\* the graph was returned after two rows spelling one roaster differently
C5_Witness ==
    /\ phase = "returned"
    /\ Len(seen) = 2
    /\ seen[1]["roaster"] # seen[2]["roaster"]
    /\ SameEntity("Roaster", seen[1], seen[2])
    /\ Cardinality(NodesOfType(result.nodes, "Roaster")) = 1

\* the normalised natural key of a row's entity
SlugKey(kind, r) ==
    [i \in DOMAIN KeyFields(kind) |-> slugify(StrField(r, KeyFields(kind)[i]))]

\* C9: rows whose normalised natural keys differ get different node ids, for
\* every kind of entity, and ids of different kinds never coincide.
C9_DistinctKeysDistinctIds ==
    Processed =>
        \A i, j \in DOMAIN seen :
            \A k1, k2 \in Kinds :
                /\ (k1 = k2 /\ SlugKey(k1, seen[i]) # SlugKey(k1, seen[j]))
                      => IdOf(k1, seen[i]) # IdOf(k1, seen[j])
                /\ k1 # k2 => IdOf(k1, seen[i]) # IdOf(k2, seen[j])

\* the attributes add_edge was given for the row's edge of a relationship
Payload(rel, r) ==
    ("type" :> Lit(rel)) @@
        (CASE rel = "BREWED_WITH" -> method_params(r)
           [] rel = "ROASTED_AS" -> "roast_date" :> Str(OptStrField(r, "roast_date"))
           [] rel = "USES_GRINDER" -> "grind_setting" :> Str(StrField(r, "grind_setting")))

EdgeEnds(rel, r) ==
    CASE rel = "BREWED_WITH" -> <<brew_session_id(r), brewer_id(r)>>
      [] rel = "ROASTED_AS" -> <<beanlot_id(r), roastbatch_id(r)>>
      [] rel = "USES_GRINDER" -> <<brew_session_id(r), grinder_id(r)>>

\* C1: after each row, the edge of a (source, destination, relationship)
\* triple the row emitted carries exactly the attributes of that row's
\* add_edge call, whatever earlier rows put on it.
C1_EdgePayloadReplaced ==
    Processed =>
        \A rel \in {"BREWED_WITH", "ROASTED_AS", "USES_GRINDER"} :
            \A e \in EdgesAt(edges, EdgeEnds(rel, Last)[1], EdgeEnds(rel, Last)[2], rel) :
                e.attrs = Payload(rel, Last)

DynamicOf(r) == DOMAIN r \ core_columns

\* C8: the BREWED_WITH edge of the row just processed holds every dynamic
\* column whose cell is non-null and non-empty, as a number when the cell
\* coerces and as a string otherwise, holds no key for a dynamic column
\* whose cell is empty, and no other edge holds a dynamic-column key.
C8_DynamicCapture ==
    Processed =>
        /\ \A e \in EdgesAt(edges, brew_session_id(Last), brewer_id(Last), "BREWED_WITH") :
              \A c \in DynamicOf(Last) :
                  IF NotNa(Last[c]) /\ Last[c] # Str(<<>>)
                  THEN /\ c \in DOMAIN e.attrs
                       /\ e.attrs[c] = IF PyFloat(Last[c]).ok THEN PyFloat(Last[c]).v
                                       ELSE Str(PyStr(Last[c]))
                  ELSE c \notin DOMAIN e.attrs
        /\ \A e \in edges : e.key # "BREWED_WITH" => DOMAIN e.attrs \cap DynamicOf(Last) = {}

\* the node types a relationship joins
EndTypes(rel) ==
    CASE rel = "PRODUCES" -> <<"Roaster", "BeanLot">>
      [] rel = "ROASTED_AS" -> <<"BeanLot", "RoastBatch">>
      [] rel = "USES_GRINDER" -> <<"BrewSession", "Grinder">>
      [] rel = "BREWED_WITH" -> <<"BrewSession", "Brewer">>
      [] rel = "USES_ROAST" -> <<"BrewSession", "RoastBatch">>
      [] rel = "EVALUATED_AS" -> <<"BrewSession", "SensoryEvaluation">>
      [] rel = "HAS_NOTE" -> <<"SensoryEvaluation", "FlavorNote">>
      [] OTHER -> <<"none", "none">>

HasType(ns, n, kind) ==
    /\ n \in DOMAIN ns
    /\ {"label", "type"} \subseteq DOMAIN ns[n]
    /\ ns[n]["type"] = Lit(kind)

\* C10: a step of the build keeps every node id and every edge triple of
\* the graph, keeps the label and the type of every node, leaves at most
\* one edge per triple, and leaves every edge between two nodes that carry
\* a label and the type its relationship fixes.
C10_MonotoneWellFormed ==
    [][/\ \A n \in DOMAIN nodes :
             /\ n \in DOMAIN nodes'
             /\ \A k \in {"label", "type"} \cap DOMAIN nodes[n] :
                   k \in DOMAIN nodes'[n] /\ nodes'[n][k] = nodes[n][k]
       /\ \A e \in edges : EdgesAt(edges', e.src, e.dst, e.key) # {}
       /\ \A e \in edges' : Cardinality(EdgesAt(edges', e.src, e.dst, e.key)) = 1
       /\ \A e \in edges' :
             /\ HasType(nodes', e.src, EndTypes(e.key)[1])
             /\ HasType(nodes', e.dst, EndTypes(e.key)[2])]_vars

\* two rows have been accumulated, the second one adding flavour notes to
\* the first one's session
C10_Witness ==
    /\ phase = "rows"
    /\ Len(seen) = 2
    /\ seen[1]["brew_id"] = seen[2]["brew_id"]
    /\ \E e \in edges : e.key = "HAS_NOTE"
    /\ Cardinality({e \in edges : e.key = "BREWED_WITH"}) = 1

====
